---- MODULE Spec2Model ----
(***************************************************************************)
(* Model of zoo_attack/random_gradient_estimator.py: the zeroth-order      *)
(* RandomGradientEstimator (seeded perturbation, finite-difference         *)
(* directional gradients, gradient injection, update / revert replay).     *)
(*                                                                         *)
(* Arithmetic is exact: a real number is a normalised fraction <<n, d>>    *)
(* with d > 0.  A tensor is a flat sequence of such numbers; a parameter's *)
(* shape is its element count.                                             *)
(***************************************************************************)
EXTENDS Integers, Sequences, FiniteSets, TLC

VARIABLES
    est,          \* "none" before the constructor ran, then "ok" or "raised"
    ctor_args,    \* the arguments the constructor was called with
    cfg,          \* the estimator's fields after a successful construction
    optimizer,    \* the torch optimizer the trainer built beside the estimator
    data,         \* p.data of every model parameter (trainable or not)
    grad,         \* p.grad of every model parameter, None when absent
    last,         \* what the most recent call was given and what it did
    prev,         \* the same for the call before it
    calls         \* number of estimator calls made so far

vars == <<est, ctor_args, cfg, optimizer, data, grad, last, prev, calls>>

None == "None"
Absent == <<>>    \* an absent tensor (p.grad is None, perturb=None, no buffer)

(***************************************************************************)
(* Bounds of the model.                                                    *)
(***************************************************************************)
MaxPert == 2      \* num_pert ranges over 1..MaxPert
MaxSteps == 2     \* recorded steps replayed by one update / revert call
MaxCalls == 2     \* estimator calls per run

(***************************************************************************)
(* Exact rational arithmetic.                                              *)
(***************************************************************************)
Abs(x) == IF x < 0 THEN -x ELSE x

RECURSIVE Gcd(_, _)
Gcd(a, b) == IF b = 0 THEN a ELSE Gcd(b, a % b)

Q(n, d) ==
    LET s == IF d < 0 THEN -1 ELSE 1
        g == Gcd(Abs(n), Abs(d))
    IN  <<(s * n) \div g, (s * d) \div g>>

Zero == <<0, 1>>
One == <<1, 1>>
Int2Q(k) == <<k, 1>>
QAdd(a, b) ==
    LET g == Gcd(a[2], b[2])
    IN  Q(a[1] * (b[2] \div g) + b[1] * (a[2] \div g), a[2] * (b[2] \div g))
QNeg(a) == <<-a[1], a[2]>>
QSub(a, b) == QAdd(a, QNeg(b))
QMul(a, b) == Q(a[1] * b[1], a[2] * b[2])
QDiv(a, b) == Q(a[1] * b[2], a[2] * b[1])
QPos(a) == a[1] > 0

\* A sequence given elementwise, evaluated once into a tuple of n elements.
Eager(f, n) == SubSeq(f, 1, n)

\* The element of a one-element set: Only({F(x) : x \in {e}}) is F(e) with e
\* evaluated once.
Only(S) == CHOOSE x \in S : TRUE

\* Tensor arithmetic, elementwise on flat sequences.
TAdd(u, v) == Eager([j \in 1..Len(u) |-> QAdd(u[j], v[j])], Len(u))
TScale(u, c) == Eager([j \in 1..Len(u) |-> QMul(u[j], c)], Len(u))
TAddScaled(u, v, alpha) ==
    Eager([j \in 1..Len(u) |-> QAdd(u[j], QMul(alpha, v[j]))], Len(u))

RECURSIVE TSum(_)
TSum(u) == IF u = <<>> THEN Zero ELSE QAdd(Head(u), TSum(Tail(u)))

Slice(u, start, n) == SubSeq(u, start + 1, start + n)
Reverse(s) == Eager([j \in 1..Len(s) |-> s[Len(s) + 1 - j]], Len(s))

(***************************************************************************)
(* The model handed to the constructor, the loss and the inputs.           *)
(***************************************************************************)
\* Element count and requires_grad of each parameter of the model, in
\* iteration order; the second one is frozen.
ParamNumel == <<1, 1, 2>>
ParamRequiresGrad == <<TRUE, FALSE, TRUE>>
Params == 1..Len(ParamNumel)
\* A value per parameter of the model, evaluated once.
EachParam(f) == Eager(f, Len(ParamNumel))
InitData == <<<<Int2Q(1)>>, <<Int2Q(5)>>, <<Int2Q(-2), Int2Q(3)>>>>

Seeds == {-1, 2}
LossFns == {"sumsq", "linear"}
MethodArgs == {"RandomGradEstimateMethod.rge_central",
               "RandomGradEstimateMethod.rge_forward",
               "rge-central", "rge-forward", "rge-bogus"}
CtorArgs(methods, perts) ==
    [grad_estimate_method : methods, normalize_perturbation : BOOLEAN,
     paramwise_perturb : BOOLEAN, sgd_only_no_optim : BOOLEAN,
     num_pert : perts, mu : {Q(1, 2)}]

\* torch optimizers: defaults lr / momentum / weight_decay, and the SGD
\* momentum buffers (None until the first step).
NoBuf == [p \in Params |-> Absent]
Optimizers ==
    {[kind |-> "SGD", lr |-> Q(1, 2), momentum |-> Zero, weight_decay |-> Zero, buf |-> NoBuf],
     [kind |-> "SGD", lr |-> Q(1, 2), momentum |-> Zero, weight_decay |-> One, buf |-> NoBuf],
     [kind |-> "SGD", lr |-> Q(1, 2), momentum |-> Q(1, 2), weight_decay |-> Zero, buf |-> NoBuf],
     [kind |-> "Adam", lr |-> Q(1, 2), momentum |-> Zero, weight_decay |-> Zero, buf |-> NoBuf]}

\* loss_fn(batch_inputs, labels): a deterministic function of the model's
\* parameters (all of them, frozen ones included).
RECURSIVE Flatten(_, _)
Flatten(d, k) == IF k > Len(ParamNumel) THEN <<>> ELSE d[k] \o Flatten(d, k + 1)

Loss(fn, d) ==
    LET x == Flatten(d, 1)
    IN  IF fn = "sumsq"
        THEN TSum([j \in 1..Len(x) |-> QMul(x[j], x[j])])
        ELSE TSum([j \in 1..Len(x) |-> QMul(Int2Q(j), x[j])])

(***************************************************************************)
(* RandomGradientEstimator.__init__                                        *)
(***************************************************************************)
\* Mutant: the constructor keeps every parameter, frozen ones included.
RECURSIVE Trainable_Unfiltered(_)
Trainable_Unfiltered(k) ==
    IF k > Len(ParamNumel) THEN <<>> ELSE <<k>> \o Trainable_Unfiltered(k + 1)

RECURSIVE Trainable(_)
Trainable(k) ==
    IF k > Len(ParamNumel) THEN <<>>
    ELSE (IF ParamRequiresGrad[k] THEN <<k>> ELSE <<>>) \o Trainable(k + 1)

RECURSIVE SumNumel(_)
SumNumel(ps) == IF ps = <<>> THEN 0 ELSE ParamNumel[Head(ps)] + SumNumel(Tail(ps))

IsEnum(m) == m \in {"RandomGradEstimateMethod.rge_central",
                    "RandomGradEstimateMethod.rge_forward"}

\* Mutant: sgd_only_no_optim is accepted without paramwise_perturb.
NewEstimator_NoSgdCheck(a) ==
    LET method ==
            IF IsEnum(a.grad_estimate_method) THEN a.grad_estimate_method
            ELSE IF a.grad_estimate_method = "rge-central"
                 THEN "RandomGradEstimateMethod.rge_central"
            ELSE IF a.grad_estimate_method = "rge-forward"
                 THEN "RandomGradEstimateMethod.rge_forward"
            ELSE None
        fields ==
            [parameters_list |-> Trainable(1),
             total_dimensions |-> SumNumel(Trainable(1)),
             mu |-> a.mu, num_pert |-> a.num_pert,
             grad_estimate_method |-> method,
             paramwise_perturb |-> a.paramwise_perturb,
             sgd_only_no_optim |-> a.sgd_only_no_optim,
             normalize_perturbation |-> a.normalize_perturbation]
    IN  IF method = None THEN [outcome |-> "Exception", self |-> fields]
        ELSE IF a.paramwise_perturb /\ a.normalize_perturbation
             THEN [outcome |-> "AssertionError", self |-> fields]
        ELSE [outcome |-> "ok", self |-> fields]

\* The outcome of the constructor and, when it returns, the fields it set.
NewEstimator(a) ==
    LET method ==
            IF IsEnum(a.grad_estimate_method) THEN a.grad_estimate_method
            ELSE IF a.grad_estimate_method = "rge-central"
                 THEN "RandomGradEstimateMethod.rge_central"
            ELSE IF a.grad_estimate_method = "rge-forward"
                 THEN "RandomGradEstimateMethod.rge_forward"
            ELSE None
        fields ==
            [parameters_list |-> Trainable(1),
             total_dimensions |-> SumNumel(Trainable(1)),
             mu |-> a.mu, num_pert |-> a.num_pert,
             grad_estimate_method |-> method,
             paramwise_perturb |-> a.paramwise_perturb,
             sgd_only_no_optim |-> a.sgd_only_no_optim,
             normalize_perturbation |-> a.normalize_perturbation]
    IN  IF method = None THEN [outcome |-> "Exception", self |-> fields]
        ELSE IF a.paramwise_perturb /\ a.normalize_perturbation
             THEN [outcome |-> "AssertionError", self |-> fields]
        ELSE IF a.sgd_only_no_optim /\ ~a.paramwise_perturb
             THEN [outcome |-> "AssertionError", self |-> fields]
        ELSE [outcome |-> "ok", self |-> fields]

Central == cfg.grad_estimate_method = "RandomGradEstimateMethod.rge_central"
Forward == cfg.grad_estimate_method = "RandomGradEstimateMethod.rge_forward"

(***************************************************************************)
(* Deterministic perturbation source.                                      *)
(***************************************************************************)
\* Mutant: the key leaves the perturbation index out.
get_rng_NoIndex(seed, perturb_index) == [key |-> seed * 17, pos |-> 0]

\* torch.Generator(...).manual_seed(key): a fresh generator at the start of
\* the stream that the key selects.
get_rng(seed, perturb_index) ==
    [key |-> seed * (perturb_index + 17) + perturb_index, pos |-> 0]

\* The k-th standard-normal sample of the stream of a key: a fixed function
\* of (key, k), never zero.
SampleVals == <<1, -2, 2, -1>>
Sample(key, k) ==
    Int2Q(SampleVals[((key * (2 * k + 1) + (key \div 4) * k + k * k) % Len(SampleVals)) + 1])

\* torch.randn(n, generator=rng): the next n samples of the generator's
\* stream; the generator moves on by n.
Randn(rng, n) == Eager([j \in 1..n |-> Sample(rng.key, rng.pos + j)], n)
Advance(rng, n) == [rng EXCEPT !.pos = @ + n]

\* torch.norm(p): the square root of the sum of squares, rounded up to the
\* arithmetic's grid (integers here).
RECURSIVE CeilSqrt(_, _)
CeilSqrt(x, r) == IF r * r >= x THEN r ELSE CeilSqrt(x, r + 1)
TNorm(p) ==
    LET ss == TSum([j \in 1..Len(p) |-> QMul(p[j], p[j])])
    IN  Q(CeilSqrt(ss[1] * ss[2], 0), ss[2])

generate_perturbation_norm(rng) ==
    LET p == Randn(rng, cfg.total_dimensions)
    IN  IF cfg.normalize_perturbation THEN TScale(p, QDiv(One, TNorm(p))) ELSE p

(***************************************************************************)
(* Perturbation application engine and gradient slots.                     *)
(***************************************************************************)
InList(p) == \E k \in 1..Len(cfg.parameters_list) : cfg.parameters_list[k] = p
PosIn(p) == CHOOSE k \in 1..Len(cfg.parameters_list) : cfg.parameters_list[k] = p
\* "start" when the loop over parameters_list reaches parameter p
Start(p) == SumNumel(SubSeq(cfg.parameters_list, 1, PosIn(p) - 1))

perturb_model(d, perturb, alpha) ==
    EachParam([p \in Params |->
        IF ~InList(p) THEN d[p]
        ELSE IF perturb # Absent
             THEN TAddScaled(d[p], Slice(perturb, Start(p), ParamNumel[p]), alpha)
        ELSE IF alpha # One THEN TScale(d[p], alpha)
        ELSE d[p]])

put_grad(g, flat) ==
    EachParam([p \in Params |->
        IF InList(p) THEN Slice(flat, Start(p), ParamNumel[p]) ELSE g[p]])

perturb_model_paramwise(d, rng, alpha) ==
    EachParam([p \in Params |->
        IF ~InList(p) THEN d[p]
        ELSE TAddScaled(d[p], Randn(Advance(rng, Start(p)), ParamNumel[p]), alpha)])

(***************************************************************************)
(* Gradient reconstruction / injection.                                    *)
(***************************************************************************)
\* One iteration of the loop of generate_then_put_grad; acc is update_grad
\* (Absent while it is None).
UpdateGradBody(i, acc, seed, dir_grads) ==
    LET num_pert == Len(dir_grads)
        rng == get_rng(seed, i)
        update == TScale(generate_perturbation_norm(rng),
                         QDiv(dir_grads[i + 1], Int2Q(num_pert)))
    IN  IF acc = Absent THEN update ELSE TAdd(acc, update)

RECURSIVE UpdateGradFrom(_, _, _, _)
UpdateGradFrom(i, acc, seed, dir_grads) ==
    IF i >= Len(dir_grads) THEN acc
    ELSE Only({UpdateGradFrom(i + 1, a, seed, dir_grads) :
                  a \in {UpdateGradBody(i, acc, seed, dir_grads)}})

\* Returns the outcome and the gradient slots afterwards.
generate_then_put_grad(g, seed, dir_grads) ==
    Only({IF update_grad = Absent
          THEN [outcome |-> "AssertionError", grad |-> g]
          ELSE [outcome |-> "ok", grad |-> put_grad(g, update_grad)] :
             update_grad \in {UpdateGradFrom(0, Absent, seed, dir_grads)}})

\* Mutant: every parameter draws from the start of the key's stream.
ParamwiseGradBody_FreshRng(i, g, seed, dir_grads) ==
    LET num_pert == Len(dir_grads)
        rng == get_rng(seed, i)
        scaled(p) == TScale(Randn(rng, ParamNumel[p]),
                            QDiv(dir_grads[i + 1], Int2Q(num_pert)))
    IN  EachParam([p \in Params |->
            IF ~InList(p) THEN g[p]
            ELSE IF i = 0 THEN scaled(p)
            ELSE TAdd(g[p], scaled(p))])

\* Mutant: the first direction is added to the slot as well, so a filled
\* slot accumulates across calls.
ParamwiseGradBody_Accumulates(i, g, seed, dir_grads) ==
    LET num_pert == Len(dir_grads)
        rng == get_rng(seed, i)
        scaled(p) == TScale(Randn(Advance(rng, Start(p)), ParamNumel[p]),
                            QDiv(dir_grads[i + 1], Int2Q(num_pert)))
    IN  EachParam([p \in Params |->
            IF ~InList(p) THEN g[p]
            ELSE IF g[p] = Absent THEN scaled(p)
            ELSE TAdd(g[p], scaled(p))])

\* One iteration of the outer loop of generate_then_put_grad_paramwise.
ParamwiseGradBody(i, g, seed, dir_grads) ==
    LET num_pert == Len(dir_grads)
        rng == get_rng(seed, i)
        scaled(p) == TScale(Randn(Advance(rng, Start(p)), ParamNumel[p]),
                            QDiv(dir_grads[i + 1], Int2Q(num_pert)))
    IN  EachParam([p \in Params |->
            IF ~InList(p) THEN g[p]
            ELSE IF i = 0 THEN scaled(p)
            ELSE TAdd(g[p], scaled(p))])

RECURSIVE ParamwiseGradFrom(_, _, _, _)
ParamwiseGradFrom(i, g, seed, dir_grads) ==
    IF i >= Len(dir_grads) THEN g
    ELSE Only({ParamwiseGradFrom(i + 1, g2, seed, dir_grads) :
                  g2 \in {ParamwiseGradBody(i, g, seed, dir_grads)}})

generate_then_put_grad_paramwise(g, seed, dir_grads) ==
    [outcome |-> "ok", grad |-> ParamwiseGradFrom(0, g, seed, dir_grads)]

(***************************************************************************)
(* Directional gradient estimator.                                         *)
(***************************************************************************)
Denominator == IF Central THEN Int2Q(2) ELSE Int2Q(1)
DirGrad(plus, minus) == QDiv(QSub(plus, minus), QMul(cfg.mu, Denominator))

\* Mutant: the forward restore adds the perturbation a second time.
RestoreAlpha_Added == cfg.mu

\* alpha of the call that restores the model after the loss evaluations.
RestoreAlpha == IF Central THEN cfg.mu ELSE QNeg(cfg.mu)

\* One call loss_fn(batch_inputs, labels) with the model at d: the loss,
\* the parameters it was evaluated on, and whether the call raised.  The
\* call raises when it is the fail_at-th evaluation of the estimate
\* (fail_at = 0: no evaluation raises); evals are the evaluations so far.
LossRaised == "Exception: loss_fn"
loss_fn(fn, d, evals, fail_at) ==
    [data |-> d, loss |-> Loss(fn, d), raised |-> (Len(evals) + 1 = fail_at)]

\* Mutant: the parameters are rolled back to their values at the start of
\* the iteration when an evaluation raises.
Raise_RollingBack(st, ev) ==
    [st EXCEPT !.outcome = LossRaised, !.evals = Append(@, ev)]

\* The state a loop is left in when the evaluation ev raised with the
\* model at ev.data.
Raise(st, ev) ==
    [st EXCEPT !.outcome = LossRaised, !.data = ev.data, !.evals = Append(@, ev)]

\* Mutant: the central pert_minus_loss is measured without stepping the
\* model to the minus side first.
ZoBody_NoMinusStep(st, pb_norm, fn) ==
    Only({IF plus.raised THEN Raise(st, plus)
          ELSE IF ~Central
          THEN Only({[st EXCEPT
                        !.data = perturb_model(plus.data, pb_norm, RestoreAlpha),
                        !.grad = IF @ = Absent THEN TScale(pb_norm, dir_grad)
                                 ELSE TAdd(@, TScale(pb_norm, dir_grad)),
                        !.dir_grads = Append(@, dir_grad),
                        !.evals = Append(@, plus)] :
                          dir_grad \in {DirGrad(plus.loss, st.minus)}})
          ELSE Only({IF minus.raised THEN Raise([st EXCEPT !.evals = Append(@, plus)], minus)
                     ELSE Only({[st EXCEPT
                                   !.data = perturb_model(minus.data, pb_norm, RestoreAlpha),
                                   !.grad = IF @ = Absent THEN TScale(pb_norm, dir_grad)
                                            ELSE TAdd(@, TScale(pb_norm, dir_grad)),
                                   !.dir_grads = Append(@, dir_grad),
                                   !.minus = minus.loss,
                                   !.evals = Append(Append(@, plus), minus)] :
                                     dir_grad \in {DirGrad(plus.loss, minus.loss)}}) :
                        minus \in {loss_fn(fn, plus.data,
                                           Append(st.evals, plus), st.fail_at)}}) :
             plus \in {loss_fn(fn, perturb_model(st.data, pb_norm, cfg.mu),
                               st.evals, st.fail_at)}})

\* One iteration of the loop of _zo_grad_estimate, for the perturbation
\* pb_norm.  st holds the parameters, the accumulated grad (Absent while
\* None), dir_grads, pert_minus_loss and the loss evaluations made.
ZoBody(st, pb_norm, fn) ==
    Only({IF plus.raised THEN Raise(st, plus)
          ELSE IF ~Central
          THEN Only({[st EXCEPT
                        !.data = perturb_model(plus.data, pb_norm, RestoreAlpha),
                        !.grad = IF @ = Absent THEN TScale(pb_norm, dir_grad)
                                 ELSE TAdd(@, TScale(pb_norm, dir_grad)),
                        !.dir_grads = Append(@, dir_grad),
                        !.evals = Append(@, plus)] :
                          dir_grad \in {DirGrad(plus.loss, st.minus)}})
          ELSE Only({IF minus.raised THEN Raise([st EXCEPT !.evals = Append(@, plus)], minus)
                     ELSE Only({[st EXCEPT
                                   !.data = perturb_model(minus.data, pb_norm, RestoreAlpha),
                                   !.grad = IF @ = Absent THEN TScale(pb_norm, dir_grad)
                                            ELSE TAdd(@, TScale(pb_norm, dir_grad)),
                                   !.dir_grads = Append(@, dir_grad),
                                   !.minus = minus.loss,
                                   !.evals = Append(Append(@, plus), minus)] :
                                     dir_grad \in {DirGrad(plus.loss, minus.loss)}}) :
                        minus \in {loss_fn(fn, perturb_model(plus.data, pb_norm,
                                                             QMul(Int2Q(-2), cfg.mu)),
                                           Append(st.evals, plus), st.fail_at)}}) :
             plus \in {loss_fn(fn, perturb_model(st.data, pb_norm, cfg.mu),
                               st.evals, st.fail_at)}})

RECURSIVE ZoFrom(_, _, _, _)
ZoFrom(i, st, fn, seed) ==
    IF i >= cfg.num_pert \/ st.outcome # "ok" THEN st
    ELSE Only({ZoFrom(i + 1, s, fn, seed) :
                  s \in {ZoBody(st, pb_norm, fn) :
                            pb_norm \in {generate_perturbation_norm(get_rng(seed, i))}}})

\* Mutant: the forward baseline is not evaluated before the loop.
ZoStart_NoBaseline(d, fn, fail_at) ==
    [outcome |-> "ok", data |-> d, grad |-> Absent, dir_grads |-> <<>>,
     minus |-> Zero, evals |-> <<>>, fail_at |-> fail_at]

\* The state before the loop: in forward mode pert_minus_loss is the loss
\* of the model as it stands.
ZoStart(d, fn, fail_at) ==
    LET st0 == [outcome |-> "ok", data |-> d, grad |-> Absent, dir_grads |-> <<>>,
                minus |-> Zero, evals |-> <<>>, fail_at |-> fail_at]
    IN  IF ~Forward THEN st0
        ELSE Only({IF base.raised THEN Raise(st0, base)
                   ELSE [st0 EXCEPT !.minus = base.loss, !.evals = <<base>>] :
                      base \in {loss_fn(fn, d, <<>>, fail_at)}})

\* Mutant: the accumulated gradient is not averaged over num_pert.
zo_grad_estimate_NoAverage(d, fn, seed, fail_at) ==
    Only({[outcome |-> st.outcome, data |-> st.data, grad |-> st.grad,
           dir_grads |-> st.dir_grads, evals |-> st.evals] :
             st \in {ZoFrom(0, ZoStart(d, fn, fail_at), fn, seed)}})

zo_grad_estimate(d, fn, seed, fail_at) ==
    Only({[outcome |-> st.outcome, data |-> st.data,
           grad |-> IF st.outcome = "ok"
                    THEN TScale(st.grad, QDiv(One, Int2Q(cfg.num_pert)))
                    ELSE Absent,
           dir_grads |-> st.dir_grads, evals |-> st.evals] :
             st \in {ZoFrom(0, ZoStart(d, fn, fail_at), fn, seed)}})

\* Mutant: the generator is derived once per direction and drawn on, not
\* re-derived before the later perturb_model_paramwise calls.
ZoParamwiseBody_ReusedRng(i, st, fn, seed) ==
    LET rng1 == Advance(get_rng(seed, i), cfg.total_dimensions)
        rng2 == IF Central THEN Advance(rng1, cfg.total_dimensions) ELSE rng1
    IN
    Only({IF plus.raised THEN Raise(st, plus)
          ELSE IF ~Central
          THEN Only({[st EXCEPT
                        !.data = perturb_model_paramwise(plus.data, rng2, RestoreAlpha),
                        !.dir_grads = Append(@, dir_grad),
                        !.evals = Append(@, plus)] :
                          dir_grad \in {DirGrad(plus.loss, st.minus)}})
          ELSE Only({IF minus.raised THEN Raise([st EXCEPT !.evals = Append(@, plus)], minus)
                     ELSE Only({[st EXCEPT
                                   !.data = perturb_model_paramwise(minus.data, rng2,
                                                                    RestoreAlpha),
                                   !.dir_grads = Append(@, dir_grad),
                                   !.minus = minus.loss,
                                   !.evals = Append(Append(@, plus), minus)] :
                                     dir_grad \in {DirGrad(plus.loss, minus.loss)}}) :
                        minus \in {loss_fn(fn, perturb_model_paramwise(plus.data, rng1,
                                                   QMul(Int2Q(-2), cfg.mu)),
                                           Append(st.evals, plus), st.fail_at)}}) :
             plus \in {loss_fn(fn, perturb_model_paramwise(st.data, get_rng(seed, i), cfg.mu),
                               st.evals, st.fail_at)}})

\* One iteration of the loop of _zo_grad_estimate_paramwise.
ZoParamwiseBody(i, st, fn, seed) ==
    Only({IF plus.raised THEN Raise(st, plus)
          ELSE IF ~Central
          THEN Only({[st EXCEPT
                        !.data = perturb_model_paramwise(plus.data, get_rng(seed, i),
                                                         RestoreAlpha),
                        !.dir_grads = Append(@, dir_grad),
                        !.evals = Append(@, plus)] :
                          dir_grad \in {DirGrad(plus.loss, st.minus)}})
          ELSE Only({IF minus.raised THEN Raise([st EXCEPT !.evals = Append(@, plus)], minus)
                     ELSE Only({[st EXCEPT
                                   !.data = perturb_model_paramwise(minus.data,
                                                get_rng(seed, i), RestoreAlpha),
                                   !.dir_grads = Append(@, dir_grad),
                                   !.minus = minus.loss,
                                   !.evals = Append(Append(@, plus), minus)] :
                                     dir_grad \in {DirGrad(plus.loss, minus.loss)}}) :
                        minus \in {loss_fn(fn, perturb_model_paramwise(plus.data,
                                                   get_rng(seed, i), QMul(Int2Q(-2), cfg.mu)),
                                           Append(st.evals, plus), st.fail_at)}}) :
             plus \in {loss_fn(fn, perturb_model_paramwise(st.data, get_rng(seed, i), cfg.mu),
                               st.evals, st.fail_at)}})

RECURSIVE ZoParamwiseFrom(_, _, _, _)
ZoParamwiseFrom(i, st, fn, seed) ==
    IF i >= cfg.num_pert \/ st.outcome # "ok" THEN st
    ELSE Only({ZoParamwiseFrom(i + 1, s, fn, seed) :
                  s \in {ZoParamwiseBody(i, st, fn, seed)}})

zo_grad_estimate_paramwise(d, fn, seed, fail_at) ==
    Only({[outcome |-> st.outcome, data |-> st.data, dir_grads |-> st.dir_grads,
           evals |-> st.evals] :
             st \in {ZoParamwiseFrom(0, ZoStart(d, fn, fail_at), fn, seed)}})

\* Mutant: the gradient is put whatever is_put says.
compute_grad_AlwaysPut(d, g, fn, seed, is_put, fail_at) ==
    IF ~cfg.paramwise_perturb
    THEN Only({[outcome |-> r.outcome, data |-> r.data,
                grad |-> IF r.outcome = "ok" THEN put_grad(g, r.grad) ELSE g,
                dir_grads |-> r.dir_grads, evals |-> r.evals] :
                  r \in {zo_grad_estimate(d, fn, seed, fail_at)}})
    ELSE Only({[outcome |-> r.outcome, data |-> r.data,
                grad |-> IF r.outcome = "ok"
                         THEN generate_then_put_grad_paramwise(g, seed, r.dir_grads).grad
                         ELSE g,
                dir_grads |-> r.dir_grads, evals |-> r.evals] :
                  r \in {zo_grad_estimate_paramwise(d, fn, seed, fail_at)}})

\* compute_grad: how the call ended, the parameters, the gradient slots,
\* the perturbation_dir_grads (returned when the call did not raise) and
\* the loss evaluations made.
compute_grad(d, g, fn, seed, is_put, fail_at) ==
    IF ~cfg.paramwise_perturb
    THEN Only({[outcome |-> r.outcome, data |-> r.data,
                grad |-> IF r.outcome = "ok" /\ is_put THEN put_grad(g, r.grad) ELSE g,
                dir_grads |-> r.dir_grads, evals |-> r.evals] :
                  r \in {zo_grad_estimate(d, fn, seed, fail_at)}})
    ELSE Only({[outcome |-> r.outcome, data |-> r.data,
                grad |-> IF r.outcome = "ok"
                         THEN generate_then_put_grad_paramwise(g, seed, r.dir_grads).grad
                         ELSE g,
                dir_grads |-> r.dir_grads, evals |-> r.evals] :
                  r \in {zo_grad_estimate_paramwise(d, fn, seed, fail_at)}})

\* One iteration of the loop of compute_grad_with_graph.
GraphBody(st, pb_norm, fn) ==
    Only({IF plus.raised THEN Raise(st, plus)
          ELSE IF ~Central
          THEN [st EXCEPT
                  !.data = perturb_model(plus.data, pb_norm, RestoreAlpha),
                  !.dir_grads = Append(@, DirGrad(plus.loss, st.minus)),
                  !.evals = Append(@, plus)]
          ELSE Only({IF minus.raised THEN Raise([st EXCEPT !.evals = Append(@, plus)], minus)
                     ELSE [st EXCEPT
                             !.data = perturb_model(minus.data, pb_norm, RestoreAlpha),
                             !.dir_grads = Append(@, DirGrad(plus.loss, minus.loss)),
                             !.minus = minus.loss,
                             !.evals = Append(Append(@, plus), minus)] :
                        minus \in {loss_fn(fn, perturb_model(plus.data, pb_norm,
                                                             QMul(Int2Q(-2), cfg.mu)),
                                           Append(st.evals, plus), st.fail_at)}}) :
             plus \in {loss_fn(fn, perturb_model(st.data, pb_norm, cfg.mu),
                               st.evals, st.fail_at)}})

RECURSIVE GraphFrom(_, _, _, _)
GraphFrom(i, st, fn, seed) ==
    IF i >= cfg.num_pert \/ st.outcome # "ok" THEN st
    ELSE Only({GraphFrom(i + 1, s, fn, seed) :
                  s \in {GraphBody(st, pb_norm, fn) :
                            pb_norm \in {generate_perturbation_norm(get_rng(seed, i))}}})

\* Mutant: the estimate is also put into the gradient slots.
compute_grad_with_graph_Puts(d, g, fn, seed, fail_at) ==
    compute_grad(d, g, fn, seed, TRUE, fail_at)

\* compute_grad_with_graph: the stacked dir_grads, with the parameters and
\* the gradient slots afterwards.
compute_grad_with_graph(d, g, fn, seed, fail_at) ==
    IF cfg.paramwise_perturb
    THEN [outcome |-> "AssertionError", data |-> d, grad |-> g, dir_grads |-> <<>>,
          evals |-> <<>>]
    ELSE Only({[outcome |-> st.outcome, data |-> st.data, grad |-> g,
                dir_grads |-> st.dir_grads, evals |-> st.evals] :
                  st \in {GraphFrom(0, ZoStart(d, fn, fail_at), fn, seed)}})

(***************************************************************************)
(* Update / revert driver.                                                 *)
(***************************************************************************)
\* Mutant: the raw update ascends, adding lr * dir_grad / num_pert * direction.
SgdNoOptimBody_Ascent(i, d, perturbation_dir_grads, seed, lr) ==
    LET num_pert == Len(perturbation_dir_grads)
        rng == get_rng(seed, i)
        alpha == QDiv(QMul(lr, perturbation_dir_grads[i + 1]), Int2Q(num_pert))
    IN  EachParam([p \in Params |->
            IF ~InList(p) THEN d[p]
            ELSE TAddScaled(d[p], Randn(Advance(rng, Start(p)), ParamNumel[p]), alpha)])

\* One iteration of the outer loop of sgd_no_optim_update_model.
SgdNoOptimBody(i, d, perturbation_dir_grads, seed, lr) ==
    LET num_pert == Len(perturbation_dir_grads)
        rng == get_rng(seed, i)
        alpha == QDiv(QMul(QNeg(lr), perturbation_dir_grads[i + 1]), Int2Q(num_pert))
    IN  EachParam([p \in Params |->
            IF ~InList(p) THEN d[p]
            ELSE TAddScaled(d[p], Randn(Advance(rng, Start(p)), ParamNumel[p]), alpha)])

RECURSIVE SgdNoOptimFrom(_, _, _, _, _)
SgdNoOptimFrom(i, d, perturbation_dir_grads, seed, lr) ==
    IF i >= Len(perturbation_dir_grads) THEN d
    ELSE Only({SgdNoOptimFrom(i + 1, d2, perturbation_dir_grads, seed, lr) :
                  d2 \in {SgdNoOptimBody(i, d, perturbation_dir_grads, seed, lr)}})

sgd_no_optim_update_model(d, perturbation_dir_grads, seed, lr) ==
    SgdNoOptimFrom(0, d, perturbation_dir_grads, seed, lr)

\* optimizer.step() of torch.optim.SGD (dampening 0, no nesterov) over the
\* parameters whose gradient slot is filled.
optimizer_step(opt, d, g) ==
    LET dp(p) == IF opt.weight_decay # Zero
                 THEN TAddScaled(g[p], d[p], opt.weight_decay) ELSE g[p]
        buf(p) == IF opt.momentum = Zero THEN opt.buf[p]
                  ELSE IF opt.buf[p] = Absent THEN dp(p)
                  ELSE TAdd(TScale(opt.buf[p], opt.momentum), dp(p))
        step(p) == IF opt.momentum = Zero THEN dp(p) ELSE buf(p)
    IN  [data |-> EachParam([p \in Params |->
                      IF g[p] = Absent THEN d[p]
                      ELSE TAddScaled(d[p], step(p), QNeg(opt.lr))]),
         opt |-> [opt EXCEPT !.buf = EachParam([p \in Params |->
                      IF g[p] = Absent THEN opt.buf[p] ELSE buf(p)])]]

\* The injection routine of the estimator's perturbation strategy.
inject(g, seed, dir_grads) ==
    IF cfg.paramwise_perturb
    THEN generate_then_put_grad_paramwise(g, seed, dir_grads)
    ELSE generate_then_put_grad(g, seed, dir_grads)

\* zip(iteration_seeds, iteration_grad_scalar)
Min(x, y) == IF x < y THEN x ELSE y
Zip(a, b) == Eager([k \in 1..Min(Len(a), Len(b)) |-> <<a[k], b[k]>>], Min(Len(a), Len(b)))

\* Mutant: only the first recorded step's gradient is injected; the later
\* steps step on the slots as they stand.
UpdateBody_StaleGrad(st, pair) ==
    Only({IF put.outcome # "ok" THEN [st EXCEPT !.outcome = put.outcome]
          ELSE Only({[outcome |-> "ok", data |-> stepped.data, grad |-> put.grad,
                      opt |-> stepped.opt, steps |-> st.steps + 1] :
                        stepped \in {optimizer_step(st.opt, st.data, put.grad)}}) :
             put \in {IF st.steps = 0 THEN inject(st.grad, pair[1], pair[2])
                      ELSE [outcome |-> "ok", grad |-> st.grad]}})

\* Mutant: the optimizer steps on the slots as the previous step left
\* them, before the step's own gradient is injected.
UpdateBody_StepBeforeInject(st, pair) ==
    Only({Only({IF put.outcome # "ok" THEN [st EXCEPT !.outcome = put.outcome]
                ELSE [outcome |-> "ok", data |-> stepped.data, grad |-> put.grad,
                      opt |-> stepped.opt, steps |-> st.steps + 1] :
                   put \in {inject(st.grad, pair[1], pair[2])}}) :
             stepped \in {optimizer_step(st.opt, st.data, st.grad)}})

\* One iteration of the optimizer loop of update_model_given_seed_and_grad.
UpdateBody(st, pair) ==
    Only({IF put.outcome # "ok" THEN [st EXCEPT !.outcome = put.outcome]
          ELSE Only({[outcome |-> "ok", data |-> stepped.data, grad |-> put.grad,
                      opt |-> stepped.opt, steps |-> st.steps + 1] :
                        stepped \in {optimizer_step(st.opt, st.data, put.grad)}}) :
             put \in {inject(st.grad, pair[1], pair[2])}})

RECURSIVE UpdateFrom(_, _, _)
UpdateFrom(k, st, pairs) ==
    IF k > Len(pairs) \/ st.outcome # "ok" THEN st
    ELSE Only({UpdateFrom(k + 1, s, pairs) : s \in {UpdateBody(st, pairs[k])}})

RECURSIVE RawUpdateFrom(_, _, _, _)
RawUpdateFrom(k, d, pairs, lr) ==
    IF k > Len(pairs) THEN d
    ELSE Only({RawUpdateFrom(k + 1, d2, pairs, lr) :
                  d2 \in {sgd_no_optim_update_model(d, pairs[k][2], pairs[k][1], lr)}})

\* Mutant: no length assertion, zip silently truncates to the shorter list.
update_model_Truncating(opt, d, g, iteration_seeds, iteration_grad_scalar) ==
    LET st0 == [outcome |-> "ok", data |-> d, grad |-> g, opt |-> opt, steps |-> 0]
        pairs == Zip(iteration_seeds, iteration_grad_scalar)
    IN  IF cfg.sgd_only_no_optim
        THEN [st0 EXCEPT !.data = RawUpdateFrom(1, d, pairs, opt.lr)]
        ELSE UpdateFrom(1, st0, pairs)

update_model_given_seed_and_grad(opt, d, g, iteration_seeds, iteration_grad_scalar) ==
    LET st0 == [outcome |-> "ok", data |-> d, grad |-> g, opt |-> opt, steps |-> 0]
        pairs == Zip(iteration_seeds, iteration_grad_scalar)
    IN  IF Len(iteration_seeds) # Len(iteration_grad_scalar)
        THEN [st0 EXCEPT !.outcome = "AssertionError"]
        ELSE IF cfg.sgd_only_no_optim
        THEN [st0 EXCEPT !.data = RawUpdateFrom(1, d, pairs, opt.lr)]
        ELSE UpdateFrom(1, st0, pairs)

\* Mutant: the weight-decay scaling of the forward step is not undone.
RevertBody_NoDecay(st, pair, lr, weight_decay) ==
    Only({IF put.outcome # "ok" THEN [st EXCEPT !.outcome = put.outcome]
          ELSE [st EXCEPT
                   !.grad = put.grad,
                   !.data = EachParam([p \in Params |->
                       IF ~InList(p) THEN st.data[p]
                       ELSE TAddScaled(st.data[p], put.grad[p], lr)])] :
             put \in {inject(st.grad, pair[1], pair[2])}})

\* One iteration of the loop of revert_model_given_seed_and_grad.
RevertBody(st, pair, lr, weight_decay) ==
    Only({IF put.outcome # "ok" THEN [st EXCEPT !.outcome = put.outcome]
          ELSE [st EXCEPT
                   !.grad = put.grad,
                   !.data = EachParam([p \in Params |->
                       IF ~InList(p) THEN st.data[p]
                       ELSE IF QPos(weight_decay)
                            THEN TScale(TAddScaled(st.data[p], put.grad[p], lr),
                                        QDiv(One, QSub(One, QMul(lr, weight_decay))))
                       ELSE TAddScaled(st.data[p], put.grad[p], lr)])] :
             put \in {inject(st.grad, pair[1], pair[2])}})

RECURSIVE RevertFrom(_, _, _, _, _)
RevertFrom(k, st, pairs, lr, weight_decay) ==
    IF k > Len(pairs) \/ st.outcome # "ok" THEN st
    ELSE Only({RevertFrom(k + 1, s, pairs, lr, weight_decay) :
                  s \in {RevertBody(st, pairs[k], lr, weight_decay)}})

\* Mutant: the optimizer is not checked before the steps are processed.
revert_model_Unchecked(opt, d, g, iteration_seeds, iteration_grad_scalar) ==
    LET st0 == [outcome |-> "ok", data |-> d, grad |-> g, opt |-> opt, steps |-> 0]
        pairs == Zip(iteration_seeds, iteration_grad_scalar)
    IN  IF cfg.sgd_only_no_optim THEN [st0 EXCEPT !.outcome = "AssertionError"]
        ELSE IF Len(iteration_seeds) # Len(iteration_grad_scalar)
        THEN [st0 EXCEPT !.outcome = "AssertionError"]
        ELSE RevertFrom(1, st0, pairs, opt.lr, opt.weight_decay)

revert_model_given_seed_and_grad(opt, d, g, iteration_seeds, iteration_grad_scalar) ==
    LET st0 == [outcome |-> "ok", data |-> d, grad |-> g, opt |-> opt, steps |-> 0]
        pairs == Zip(iteration_seeds, iteration_grad_scalar)
    IN  IF cfg.sgd_only_no_optim THEN [st0 EXCEPT !.outcome = "AssertionError"]
        ELSE IF Len(iteration_seeds) # Len(iteration_grad_scalar)
        THEN [st0 EXCEPT !.outcome = "AssertionError"]
        ELSE IF ~(opt.kind = "SGD" /\ opt.momentum = Zero)
        THEN [st0 EXCEPT !.outcome = "Exception: Revert only supports SGD without momentum"]
        ELSE RevertFrom(1, st0, pairs, opt.lr, opt.weight_decay)

(***************************************************************************)
(* The trainer's calls.                                                    *)
(***************************************************************************)
NoGrad == [p \in Params |-> Absent]
NoCfg == NewEstimator([grad_estimate_method |-> "rge-bogus",
                       normalize_perturbation |-> FALSE, paramwise_perturb |-> FALSE,
                       sgd_only_no_optim |-> FALSE, num_pert |-> 1, mu |-> Q(1, 2)]).self
NoOptimizer == [kind |-> "none", lr |-> Zero, momentum |-> Zero,
                weight_decay |-> Zero, buf |-> NoBuf]
NoCall == [op |-> "none", outcome |-> "ok", seed |-> 0, fn |-> "none",
           is_put |-> FALSE, seeds |-> <<>>, grads |-> <<>>, dir_grads |-> <<>>,
           data_before |-> InitData, grad_before |-> NoGrad, steps |-> 0,
           evals |-> <<>>, opt_before |-> NoOptimizer]

\* The k-th step of the trainer's history buffer: its seed and its
\* directional gradients, one per perturbation.
RecordedSeed(k) == IF k % 2 = 1 THEN 2 ELSE -1
RecordedGrads(k) == Eager([i \in 1..cfg.num_pert |-> Q(2 * k - 3 * i + 2, 2)], cfg.num_pert)
SeedList(k, rev) ==
    LET s == Eager([j \in 1..k |-> RecordedSeed(j)], k) IN IF rev THEN Reverse(s) ELSE s
GradList(k, rev) ==
    LET s == Eager([j \in 1..k |-> RecordedGrads(j)], k) IN IF rev THEN Reverse(s) ELSE s

Init ==
    /\ est = "none"
    /\ ctor_args = CHOOSE a \in CtorArgs({"rge-bogus"}, {1}) :
                      ~a.normalize_perturbation /\ ~a.paramwise_perturb
                      /\ ~a.sgd_only_no_optim
    /\ cfg = NoCfg
    /\ optimizer = NoOptimizer
    /\ data = InitData
    /\ grad = NoGrad
    /\ last = NoCall
    /\ prev = NoCall
    /\ calls = 0

\* RandomGradientEstimator(model.parameters(), ...) and the optimizer built
\* beside it.
Construct(methods, perts, opts) ==
    /\ est = "none"
    /\ \E a \in CtorArgs(methods, perts), o \in opts :
          LET r == NewEstimator(a)
          IN  /\ ctor_args' = a
              /\ est' = IF r.outcome = "ok" THEN "ok" ELSE "raised"
              /\ cfg' = IF r.outcome = "ok" THEN r.self ELSE NoCfg
              /\ optimizer' = IF r.outcome = "ok" THEN o ELSE NoOptimizer
              /\ last' = [NoCall EXCEPT !.op = "__init__", !.outcome = r.outcome]
    /\ UNCHANGED <<data, grad, prev, calls>>

Called(rec) ==
    /\ last' = [rec EXCEPT !.data_before = data, !.grad_before = grad,
                           !.opt_before = optimizer]
    /\ prev' = last
    /\ calls' = calls + 1

\* compute_grad with a seed, a loss function and a loss failure drawn from
\* the given sets.
ComputeGradOver(seeds, fns, fails) ==
    /\ est = "ok" /\ calls < MaxCalls
    /\ \E seed \in seeds, fn \in fns, is_put \in BOOLEAN, fail_at \in fails :
          \E r \in {compute_grad(data, grad, fn, seed, is_put, fail_at)} :
              /\ data' = r.data
              /\ grad' = r.grad
              /\ Called([NoCall EXCEPT !.op = "compute_grad", !.outcome = r.outcome,
                                       !.seed = seed, !.fn = fn, !.is_put = is_put,
                                       !.dir_grads = r.dir_grads, !.evals = r.evals])
    /\ UNCHANGED <<est, ctor_args, cfg, optimizer>>

\* compute_grad with a loss function that does not raise.
ComputeGrad == ComputeGradOver(Seeds, LossFns, {0})

ComputeGradWithGraph ==
    /\ est = "ok" /\ calls < MaxCalls
    /\ \E seed \in Seeds, fn \in LossFns :
          \E r \in {compute_grad_with_graph(data, grad, fn, seed, 0)} :
              /\ data' = r.data
              /\ grad' = r.grad
              /\ Called([NoCall EXCEPT !.op = "compute_grad_with_graph",
                                       !.outcome = r.outcome,
                                       !.seed = seed, !.fn = fn,
                                       !.dir_grads = r.dir_grads, !.evals = r.evals])
    /\ UNCHANGED <<est, ctor_args, cfg, optimizer>>

\* The trainer replays a step it holds: the one compute_grad just returned,
\* or the first of its history buffer.
Replayable ==
    IF last.op = "compute_grad" /\ last.outcome = "ok"
    THEN [seed |-> last.seed, dir_grads |-> last.dir_grads]
    ELSE [seed |-> RecordedSeed(1), dir_grads |-> RecordedGrads(1)]

GenerateThenPutGrad ==
    /\ est = "ok" /\ calls < MaxCalls
    /\ \E r \in {generate_then_put_grad(grad, Replayable.seed, Replayable.dir_grads)} :
           /\ grad' = r.grad
           /\ Called([NoCall EXCEPT !.op = "generate_then_put_grad",
                                    !.outcome = r.outcome,
                                    !.seed = Replayable.seed,
                                    !.dir_grads = Replayable.dir_grads])
    /\ UNCHANGED <<est, ctor_args, cfg, optimizer, data>>

GenerateThenPutGradParamwise ==
    /\ est = "ok" /\ calls < MaxCalls
    /\ \E r \in {generate_then_put_grad_paramwise(grad, Replayable.seed,
                                                  Replayable.dir_grads)} :
           /\ grad' = r.grad
           /\ Called([NoCall EXCEPT !.op = "generate_then_put_grad_paramwise",
                                    !.outcome = r.outcome,
                                    !.seed = Replayable.seed,
                                    !.dir_grads = Replayable.dir_grads])
    /\ UNCHANGED <<est, ctor_args, cfg, optimizer, data>>

\* The lists an update / revert call is given: the first k seeds and the
\* first m directional-gradient vectors of the history buffer, both in
\* chronological or both in reverse order; m differs from k in the calls
\* with one seed and no or two vectors.
ReplayArgs ==
    {a \in [k : 1..MaxSteps, m : 0..MaxSteps, rev : BOOLEAN] :
        /\ a.m = a.k \/ (a.k = 1 /\ a.m \in {0, 2})
        /\ (a.rev => a.k >= 2)}

\* optimizer.step() is modelled for torch.optim.SGD only.
StepModelled(a) ==
    cfg.sgd_only_no_optim \/ optimizer.kind = "SGD" \/ a.k # a.m

UpdateModel ==
    /\ est = "ok" /\ calls < MaxCalls
    /\ \E a \in {x \in ReplayArgs : StepModelled(x)} :
          \E seeds \in {SeedList(a.k, a.rev)}, grads \in {GradList(a.m, a.rev)} :
          \E r \in {update_model_given_seed_and_grad(optimizer, data, grad, seeds, grads)} :
              /\ data' = r.data
              /\ grad' = r.grad
              /\ optimizer' = r.opt
              /\ Called([NoCall EXCEPT !.op = "update", !.outcome = r.outcome,
                                       !.seeds = seeds, !.grads = grads,
                                       !.steps = r.steps])
    /\ UNCHANGED <<est, ctor_args, cfg>>

RevertModel ==
    /\ est = "ok" /\ calls < MaxCalls
    /\ \E a \in ReplayArgs :
          \E seeds \in {SeedList(a.k, a.rev)}, grads \in {GradList(a.m, a.rev)} :
          \E r \in {revert_model_given_seed_and_grad(optimizer, data, grad, seeds, grads)} :
              /\ data' = r.data
              /\ grad' = r.grad
              /\ optimizer' = r.opt
              /\ Called([NoCall EXCEPT !.op = "revert", !.outcome = r.outcome,
                                       !.seeds = seeds, !.grads = grads,
                                       !.steps = r.steps])
    /\ UNCHANGED <<est, ctor_args, cfg>>

EnumMethods == {m \in MethodArgs : IsEnum(m)}
PlainSGD == {o \in Optimizers : o.kind = "SGD" /\ o.momentum = Zero /\ o.weight_decay = Zero}

\* An estimation session: the trainer estimates gradients and replays the
\* injection.
Next ==
    \/ Construct(EnumMethods, 1..MaxPert, PlainSGD)
    \/ ComputeGrad
    \/ GenerateThenPutGrad
    \/ GenerateThenPutGradParamwise

Spec == Init /\ [][Next]_vars

\* A replay session: the trainer applies and undoes recorded steps.
NextReplay ==
    \/ Construct({"RandomGradEstimateMethod.rge_central"}, {1, MaxPert}, Optimizers)
    \/ UpdateModel
    \/ RevertModel

SpecReplay == Init /\ [][NextReplay]_vars

\* An estimation session of a caller that differentiates through the
\* estimate.
NextGraph ==
    \/ Construct(EnumMethods, 1..MaxPert, PlainSGD)
    \/ ComputeGrad
    \/ ComputeGradWithGraph

SpecGraph == Init /\ [][NextGraph]_vars

\* An estimation session whose loss function may raise at any one of its
\* evaluations.
NextFail ==
    \/ Construct(EnumMethods, 1..MaxPert, PlainSGD)
    \/ ComputeGradOver({2}, {"sumsq"}, 0..(2 * MaxPert))

SpecFail == Init /\ [][NextFail]_vars

\* A training session: estimation, injection, update and revert in any
\* order, with a loss function that may raise at its second evaluation.
DecayingSGD == {o \in Optimizers : o.kind = "SGD" /\ o.momentum = Zero
                                    /\ o.weight_decay # Zero}
NextAll ==
    \/ Construct(EnumMethods, {MaxPert}, DecayingSGD)
    \/ ComputeGradOver({2}, {"linear"}, {0, 2})
    \/ GenerateThenPutGrad
    \/ GenerateThenPutGradParamwise
    \/ UpdateModel
    \/ RevertModel

SpecAll == Init /\ [][NextAll]_vars

\* Construction alone, over every argument combination.
NextCtor == Construct(MethodArgs, 1..MaxPert, Optimizers)

SpecCtor == Init /\ [][NextCtor]_vars

(***************************************************************************)
(* Properties.                                                             *)
(***************************************************************************)
TrainableEqual(x, y) == \A p \in Params : InList(p) => x[p] = y[p]
Returned(c, op) == est = "ok" /\ c.op = op /\ c.outcome = "ok"

\* C1: when compute_grad returns, every trainable parameter holds exactly
\* the value it held before the call, for both estimate methods and both
\* perturbation strategies.
C1_RestoreIdentity ==
    Returned(last, "compute_grad") => TrainableEqual(data, last.data_before)

C1_Witness ==
    /\ Returned(last, "compute_grad") /\ Returned(prev, "compute_grad")
    /\ cfg.paramwise_perturb /\ Central /\ cfg.num_pert >= 2
    /\ last.fn = "sumsq" /\ last.dir_grads[1] # Zero

\* C2: with plain SGD of zero momentum, an update over k >= 1 recorded
\* steps followed by a revert over the same steps in reverse order returns
\* every trainable parameter to its value before the update.
UpdateThenRevert ==
    /\ Returned(prev, "update") /\ Returned(last, "revert")
    /\ optimizer.kind = "SGD" /\ optimizer.momentum = Zero
    /\ Len(prev.seeds) >= 1
    /\ last.seeds = Reverse(prev.seeds) /\ last.grads = Reverse(prev.grads)

C2_UpdateRevertInverse ==
    UpdateThenRevert => TrainableEqual(data, prev.data_before)

C2_Witness ==
    /\ UpdateThenRevert /\ Len(prev.seeds) >= 2
    /\ optimizer.weight_decay # Zero
    /\ ~TrainableEqual(last.data_before, prev.data_before)

\* C3: the gradient compute_grad wrote into the gradient slots equals the
\* gradient the strategy's injection routine writes from the seed and the
\* directional gradients compute_grad returned.
ReplayOfComputeGrad ==
    /\ Returned(prev, "compute_grad")
    /\ cfg.paramwise_perturb \/ prev.is_put
    /\ Returned(last, IF cfg.paramwise_perturb THEN "generate_then_put_grad_paramwise"
                      ELSE "generate_then_put_grad")
    /\ last.seed = prev.seed /\ last.dir_grads = prev.dir_grads

C3_ReplayFromScalars ==
    ReplayOfComputeGrad => TrainableEqual(grad, last.grad_before)

C3_Witness ==
    /\ ReplayOfComputeGrad /\ ~cfg.paramwise_perturb /\ cfg.num_pert >= 2
    /\ cfg.normalize_perturbation
    /\ \E p \in Params : InList(p) /\ grad[p] # Absent /\ grad[p][1] # Zero

\* C4 as claimed: for the same seed and directional gradients, the two
\* injection routines leave equal gradients in every trainable slot.
OtherRoutine(g, seed, dir_grads) ==
    IF last.op = "generate_then_put_grad"
    THEN generate_then_put_grad_paramwise(g, seed, dir_grads).grad
    ELSE generate_then_put_grad(g, seed, dir_grads).grad
Injected ==
    Returned(last, "generate_then_put_grad")
        \/ Returned(last, "generate_then_put_grad_paramwise")

SameCallTwice ==
    /\ Returned(prev, "compute_grad") /\ Returned(last, "compute_grad")
    /\ last.seed = prev.seed /\ last.fn = prev.fn

C5_Determinism ==
    SameCallTwice =>
        /\ last.dir_grads = prev.dir_grads
        /\ Len(last.dir_grads) = cfg.num_pert

C5_Witness ==
    /\ SameCallTwice /\ last.fn = "sumsq" /\ cfg.num_pert >= 2
    /\ last.dir_grads[1] # last.dir_grads[2]

\* C6 as claimed: two distinct (seed, index) pairs never derive the same
\* stream key; stated of the pairs the estimator has drawn from.
Drawn ==
    {<<c.seed, i>> : c \in {x \in {last, prev} : Returned(x, "compute_grad")},
                     i \in 0..(cfg.num_pert - 1)}

C6_Original ==
    \A a \in Drawn, b \in Drawn :
        a # b => get_rng(a[1], a[2]).key # get_rng(b[1], b[2]).key

\* C6 amended: for one seed other than -1, the num_pert directions of a
\* step are drawn from num_pert different keys.
C6_KeysOfOneSeedDiffer ==
    \A a \in Drawn, b \in Drawn :
        (a # b /\ a[1] = b[1] /\ a[1] # -1) =>
            get_rng(a[1], a[2]).key # get_rng(b[1], b[2]).key

C6_Witness ==
    /\ Returned(last, "compute_grad") /\ last.seed # -1 /\ cfg.num_pert >= 2
    /\ Cardinality(Drawn) >= 2

\* C7: the constructor raises exactly when the method is a string other
\* than 'rge-central' / 'rge-forward', or paramwise_perturb comes with
\* normalize_perturbation, or sgd_only_no_optim comes without
\* paramwise_perturb; every other combination constructs.
InvalidConfiguration(a) ==
    \/ ~IsEnum(a.grad_estimate_method)
          /\ a.grad_estimate_method \notin {"rge-central", "rge-forward"}
    \/ a.paramwise_perturb /\ a.normalize_perturbation
    \/ a.sgd_only_no_optim /\ ~a.paramwise_perturb

C7_ConstructionFailsFast ==
    est # "none" =>
        /\ (est = "raised") <=> InvalidConfiguration(ctor_args)
        /\ (est = "ok") <=> ~InvalidConfiguration(ctor_args)
        /\ est = "raised" => cfg = NoCfg /\ last.outcome # "ok"

C7_Witness ==
    /\ est = "raised" /\ ctor_args.sgd_only_no_optim /\ ~ctor_args.paramwise_perturb
    /\ ctor_args.grad_estimate_method = "rge-forward"
    /\ ~ctor_args.normalize_perturbation

\* C8 as claimed: revert with an optimizer that is not plain SGD, or has
\* momentum, raises the explicit unsupported-optimizer error and leaves
\* parameters and gradient slots unchanged.
UnsupportedRevert ==
    /\ est = "ok" /\ last.op = "revert"
    /\ ~(optimizer.kind = "SGD" /\ optimizer.momentum = Zero)
RevertOnlySGD == "Exception: Revert only supports SGD without momentum"
Untouched == data = last.data_before /\ grad = last.grad_before /\ last.steps = 0

C8_Original ==
    UnsupportedRevert => last.outcome = RevertOnlySGD /\ Untouched

\* C8 amended: such a revert raises before any recorded step is processed
\* and leaves parameters and gradient slots unchanged; the error is the
\* explicit one when sgd_only_no_optim is off and the two lists have the
\* same length, and the failed assertion otherwise.
C8_RevertRejectsOptimizer ==
    UnsupportedRevert =>
        /\ Untouched
        /\ last.outcome =
              IF ~cfg.sgd_only_no_optim /\ Len(last.seeds) = Len(last.grads)
              THEN RevertOnlySGD ELSE "AssertionError"

C8_Witness ==
    /\ UnsupportedRevert /\ last.outcome = RevertOnlySGD
    /\ optimizer.momentum # Zero /\ Returned(prev, "update")
    /\ Len(last.seeds) >= 2

\* C9: update and revert given a seed list and a directional-gradient list
\* of different lengths fail before any recorded step is processed: no
\* parameter or gradient slot changes and the optimizer is not stepped.
LengthMismatch ==
    /\ est = "ok" /\ last.op \in {"update", "revert"}
    /\ Len(last.seeds) # Len(last.grads)

C9_LengthMismatchFatal ==
    LengthMismatch => last.outcome = "AssertionError" /\ Untouched

C9_Witness ==
    /\ LengthMismatch /\ last.op = "update" /\ Len(last.grads) > Len(last.seeds)
    /\ Returned(prev, "update") /\ ~cfg.sgd_only_no_optim

\* C10: with sgd_only_no_optim, update leaves the parameters that
\* injecting each recorded step's gradient and taking one plain SGD step
\* (zero momentum, zero weight decay, the optimizer's lr) would leave, and
\* never invokes optimizer.step().
PlainSGDOf(opt) ==
    [kind |-> "SGD", lr |-> opt.lr, momentum |-> Zero, weight_decay |-> Zero,
     buf |-> NoBuf]
RawUpdate == Returned(last, "update") /\ cfg.sgd_only_no_optim

C10_RawSGDPath ==
    RawUpdate =>
        /\ last.steps = 0
        /\ data = UpdateFrom(1, [outcome |-> "ok", data |-> last.data_before,
                                 grad |-> last.grad_before,
                                 opt |-> PlainSGDOf(optimizer), steps |-> 0],
                             Zip(last.seeds, last.grads)).data

C10_Witness ==
    /\ RawUpdate /\ Len(last.seeds) >= 2 /\ cfg.num_pert >= 2
    /\ optimizer.kind = "Adam"
    /\ ~TrainableEqual(data, last.data_before)

\* C11 as claimed: after update returns for a non-empty list of recorded
\* steps, every trainable gradient slot holds the reconstructed gradient of
\* the last recorded step, on the raw-SGD path as on the optimizer path.
UpdateReturned == Returned(last, "update") /\ Len(last.seeds) >= 1
Reconstructed(seed, dir_grads) == inject(NoGrad, seed, dir_grads).grad
LastStepGrad ==
    Reconstructed(last.seeds[Len(last.seeds)], last.grads[Len(last.grads)])

C11_Original ==
    UpdateReturned => TrainableEqual(grad, LastStepGrad)

\* C11 amended: on the optimizer path every trainable gradient slot holds
\* the reconstructed gradient of the last recorded step; on the raw-SGD
\* path update leaves every gradient slot as it was.
C11_UpdateInjects ==
    UpdateReturned =>
        IF cfg.sgd_only_no_optim THEN grad = last.grad_before
        ELSE TrainableEqual(grad, LastStepGrad)

C11_Witness ==
    /\ UpdateReturned /\ ~cfg.sgd_only_no_optim /\ Len(last.seeds) >= 2
    /\ ~TrainableEqual(grad, Reconstructed(last.seeds[1], last.grads[1]))
    /\ cfg.paramwise_perturb

\* C12: during one compute_grad call started from theta0, the loss is
\* evaluated on theta0 (forward baseline), theta0 + mu * direction_i or
\* theta0 - mu * direction_i (central) only, direction after direction in
\* index order, with nothing of another direction left in the parameters.
Perturbed(theta0, seed, i, alpha) ==
    IF cfg.paramwise_perturb
    THEN perturb_model_paramwise(theta0, get_rng(seed, i), alpha)
    ELSE perturb_model(theta0, generate_perturbation_norm(get_rng(seed, i)), alpha)

\* The parameters the n-th loss evaluation of call c is to be made on.
EvalPoint(c, n) ==
    IF Forward
    THEN IF n = 1 THEN c.data_before
         ELSE Perturbed(c.data_before, c.seed, n - 2, cfg.mu)
    ELSE Perturbed(c.data_before, c.seed, (n - 1) \div 2,
                   IF n % 2 = 1 THEN cfg.mu ELSE QNeg(cfg.mu))

C12_OneDirectionAtATime ==
    Returned(last, "compute_grad") =>
        /\ \A n \in 1..Len(last.evals) : last.evals[n].data = EvalPoint(last, n)
        /\ Len(last.evals) >= cfg.num_pert
        /\ data = last.data_before

C12_Witness ==
    /\ Returned(last, "compute_grad") /\ Central /\ cfg.num_pert >= 2
    /\ ~cfg.paramwise_perturb /\ Len(last.evals) >= 4
    /\ last.evals[3].data # last.evals[1].data
    /\ last.evals[4].data # last.evals[2].data
    /\ last.evals[4].data # last.data_before

\* C13: forward mode evaluates the loss once on the unperturbed parameters
\* before the loop and once per direction (num_pert + 1 evaluations), and
\* each directional gradient is (L_plus_i - L_base) / mu; central mode
\* makes 2 * num_pert evaluations and each directional gradient is
\* (L_plus_i - L_minus_i) / (2 * mu).
C13_ForwardBaseline ==
    Returned(last, "compute_grad") =>
        /\ Len(last.dir_grads) = cfg.num_pert
        /\ IF Forward
           THEN /\ Len(last.evals) = cfg.num_pert + 1
                /\ last.evals[1].data = last.data_before
                /\ \A i \in 1..cfg.num_pert :
                      last.dir_grads[i] =
                          QDiv(QSub(last.evals[i + 1].loss, last.evals[1].loss), cfg.mu)
           ELSE /\ Len(last.evals) = 2 * cfg.num_pert
                /\ \A i \in 1..cfg.num_pert :
                      last.dir_grads[i] =
                          QDiv(QSub(last.evals[2 * i - 1].loss, last.evals[2 * i].loss),
                               QMul(Int2Q(2), cfg.mu))

C13_Witness ==
    /\ Returned(last, "compute_grad") /\ Forward /\ cfg.paramwise_perturb
    /\ cfg.num_pert >= 2 /\ Len(last.evals) = 3
    /\ last.evals[1].loss # Zero
    /\ last.dir_grads[1] # last.dir_grads[2]

\* C14: after either injection routine is called with a seed and a
\* non-empty directional-gradient vector g of length n, every trainable
\* gradient slot equals the sum over i of direction_i * g[i] / n on that
\* parameter, whatever the slot held before; injecting the same (seed, g)
\* twice leaves the slots of injecting it once.
DirectionOn(routine, seed, i, p) ==
    IF routine = "generate_then_put_grad"
    THEN Slice(generate_perturbation_norm(get_rng(seed, i)), Start(p), ParamNumel[p])
    ELSE Randn(Advance(get_rng(seed, i), Start(p)), ParamNumel[p])

RECURSIVE AveragedSum(_, _, _, _, _)
AveragedSum(routine, seed, g, p, i) ==
    LET term == TScale(DirectionOn(routine, seed, i - 1, p),
                       QDiv(g[i], Int2Q(Len(g))))
    IN  IF i = 1 THEN term
        ELSE TAdd(AveragedSum(routine, seed, g, p, i - 1), term)

SameInjectionTwice ==
    /\ Injected /\ Returned(prev, last.op)
    /\ prev.seed = last.seed /\ prev.dir_grads = last.dir_grads

C14_InjectionOverwrites ==
    Injected =>
        /\ \A p \in Params : InList(p) =>
              grad[p] = AveragedSum(last.op, last.seed, last.dir_grads, p,
                                    Len(last.dir_grads))
        /\ SameInjectionTwice => TrainableEqual(grad, last.grad_before)

C14_Witness ==
    /\ Returned(last, "generate_then_put_grad_paramwise")
    /\ Returned(prev, "generate_then_put_grad")
    /\ Len(last.dir_grads) >= 2
    /\ \A p \in Params : InList(p) =>
          last.grad_before[p] # Absent /\ last.grad_before[p] # grad[p]

C14_WitnessTwice ==
    SameInjectionTwice /\ last.op = "generate_then_put_grad_paramwise"

\* C15: without sgd_only_no_optim, update takes the recorded steps in list
\* order and for each injects the gradient reconstructed from that step's
\* seed and directional gradients, then steps the optimizer once on it:
\* len(seeds) optimizer steps, each on its own step's gradient.
OptimizerUpdate == Returned(last, "update") /\ ~cfg.sgd_only_no_optim

\* The parameters and the optimizer after stepping once on the gradient of
\* each of the recorded steps k.. of call c, in list order.
RECURSIVE SteppedInOrder(_, _, _)
SteppedInOrder(c, k, at) ==
    IF k > Len(c.seeds) THEN at
    ELSE Only({SteppedInOrder(c, k + 1, nxt) :
                  nxt \in {optimizer_step(at.opt, at.data,
                                          Reconstructed(c.seeds[k], c.grads[k]))}})

C15_ReplayOrdering ==
    OptimizerUpdate =>
        /\ last.steps = Len(last.seeds)
        /\ \E r \in {SteppedInOrder(last, 1, [data |-> last.data_before,
                                               opt |-> last.opt_before])} :
              data = r.data /\ optimizer = r.opt

C15_Witness ==
    /\ OptimizerUpdate /\ Len(last.seeds) >= 2 /\ cfg.num_pert >= 2
    /\ optimizer.momentum # Zero
    /\ Reconstructed(last.seeds[1], last.grads[1])
          # Reconstructed(last.seeds[2], last.grads[2])
    /\ Returned(prev, "update")

\* C16: compute_grad_with_graph is rejected in paramwise mode; in
\* whole-vector mode it returns num_pert directional gradients, leaves
\* every gradient slot unchanged and every parameter at its value before
\* the call.
GraphCall == est = "ok" /\ last.op = "compute_grad_with_graph"

C16_GraphVariantFrame ==
    GraphCall =>
        /\ grad = last.grad_before
        /\ data = last.data_before
        /\ IF cfg.paramwise_perturb
           THEN last.outcome = "AssertionError" /\ last.evals = <<>>
           ELSE /\ last.outcome = "ok"
                /\ Len(last.dir_grads) = cfg.num_pert

C16_Witness ==
    /\ GraphCall /\ last.outcome = "ok" /\ cfg.num_pert >= 2
    /\ Returned(prev, "compute_grad") /\ prev.is_put /\ prev.seed # last.seed
    /\ last.fn = "sumsq" /\ last.dir_grads[1] # last.dir_grads[2]
    /\ \E p \in Params : InList(p) /\ grad[p] # Absent

\* C17: when a loss evaluation raises while a direction is applied,
\* compute_grad propagates the failure without restoring: the parameters
\* stay at theta0 + mu * direction_i or theta0 - mu * direction_i, not
\* theta0; a failure of the forward baseline leaves them at theta0.
LossFailed == est = "ok" /\ last.op = "compute_grad" /\ last.outcome = LossRaised
BaselineFailed == LossFailed /\ Forward /\ Len(last.evals) = 1

C17_NoRollback ==
    LossFailed =>
        /\ last.evals[Len(last.evals)].raised
        /\ data = EvalPoint(last, Len(last.evals))
        /\ IF BaselineFailed THEN data = last.data_before
           ELSE \A p \in Params : InList(p) => data[p] # last.data_before[p]
        /\ grad = last.grad_before

C17_Witness ==
    /\ LossFailed /\ Central /\ cfg.paramwise_perturb
    /\ Len(last.evals) = 4
    /\ data = Perturbed(last.data_before, last.seed, 1, QNeg(cfg.mu))
    /\ Returned(prev, "compute_grad")

\* C18: parameters_list is the subsequence, in iteration order, of the
\* constructor's parameters that require gradients; it stays that for the
\* estimator's lifetime, and whatever calls are made every parameter that
\* was frozen at construction keeps its value and its gradient slot.
RequiresGrad(p) == ParamRequiresGrad[p]
Frozen == {p \in Params : ~RequiresGrad(p)}

C18_OnlyTrainableTouched ==
    /\ est = "ok" =>
          cfg.parameters_list = SelectSeq([p \in Params |-> p], RequiresGrad)
    /\ \A p \in Frozen : data[p] = InitData[p] /\ grad[p] = Absent

C18_Witness ==
    /\ Returned(last, "update") /\ Len(last.seeds) >= 2
    /\ prev.op = "compute_grad" /\ prev.outcome = LossRaised
    /\ \A p \in Params \ Frozen : data[p] # InitData[p] /\ grad[p] # Absent
    /\ Frozen # {}

\* C19: compute_grad writes the gradient slots if and only if
\* paramwise_perturb or is_put: in whole-vector mode with is_put = False
\* every slot is left unchanged, in paramwise mode the step's gradient is
\* injected whatever is_put says.
C19_IsPutEffect ==
    Returned(last, "compute_grad") =>
        /\ Len(last.dir_grads) = cfg.num_pert
        /\ IF cfg.paramwise_perturb \/ last.is_put
           THEN TrainableEqual(grad, Reconstructed(last.seed, last.dir_grads))
           ELSE grad = last.grad_before

C19_Witness ==
    /\ Returned(last, "compute_grad") /\ ~cfg.paramwise_perturb /\ ~last.is_put
    /\ Returned(prev, "compute_grad") /\ prev.is_put
    /\ \A p \in Params : InList(p) =>
          grad[p] # Absent
          /\ grad[p] # Reconstructed(last.seed, last.dir_grads)[p]

C19_WitnessParamwise ==
    /\ Returned(last, "compute_grad") /\ cfg.paramwise_perturb /\ ~last.is_put
    /\ ~TrainableEqual(grad, last.grad_before)

====
